---- MODULE Spec2Model ----
(***************************************************************************)
(* Model of the three detectors of genderbias:                             *)
(*   partsofspeech.PartofSpeechDetector.get_report   (distancing phrases)  *)
(*   raises_doubt.RaisesDoubtDetector.get_report     (doubt raisers)       *)
(*   superlatives.RaisesDoubtDetector.get_report     (superlatives)        *)
(* A state is one get_report call: the detector it runs on, the items      *)
(* that iterating doc.text() yields, the tags nltk.pos_tag aligns to them, *)
(* the locals of the call and the Report it builds.  Sequences are         *)
(* 1-based here; Python index c is position c + 1.                         *)
(***************************************************************************)
EXTENDS Integers, Sequences, FiniteSets, TLC

VARIABLES
    detector,               \* the class get_report is called on
    text,                   \* doc.text(), as the sequence of its items
    word_pos,               \* tags of nltk.pos_tag(text), aligned to text
    pc,                     \* "called", "returned" or "raised"
    err,                    \* the exception that left get_report, if any
    preposition_pairs,      \* partsofspeech: the trigger list
    neg_words_in_text,      \* raises_doubt: the four stage lists ...
    hedged_words_in_text,
    faint_praise_in_text,
    irrelevancies_in_text,
    doubt_raising_words,    \* ... and the merged trigger list
    superlatives_in_text,   \* superlatives: the found list
    found_at,               \* superlatives: position of each found entry
    regex,                  \* the pattern handed to re.finditer
    flags,                  \* report.add_flag calls, in order
    summary,                \* report.set_summary argument
    summary_sets            \* number of report.set_summary calls

vars == <<detector, text, word_pos, pc, err, preposition_pairs,
          neg_words_in_text, hedged_words_in_text, faint_praise_in_text,
          irrelevancies_in_text, doubt_raising_words, superlatives_in_text,
          found_at, regex, flags, summary, summary_sets>>

(***************************************************************************)
(* Bounds of the inputs.                                                   *)
(***************************************************************************)
MaxTail == 3
MaxWords == 3

NoSummary == "<unset>"
NoRegex == <<>>

(***************************************************************************)
(* Python helpers.                                                         *)
(***************************************************************************)
\* s[a:b] restricted to 1 <= a, b <= Len(s); empty when b < a.
Slice(s, a, b) == IF b < a THEN <<>> ELSE SubSeq(s, a, b)

\* nltk.bigrams: the adjacent pairs, N - 1 of them.
Bigrams(items) ==
    IF Len(items) < 2 THEN <<>>
    ELSE [i \in 1..(Len(items) - 1) |-> <<items[i], items[i + 1]>>]

(***************************************************************************)
(* partsofspeech: the tags and the verb-verb-preposition scan.             *)
(***************************************************************************)
\* tag[0], the first character of a treebank tag.
TagInitial(tag) ==
    CASE tag = "VBD" -> "V"
      [] tag = "IN" -> "I"
      [] tag = "NN" -> "N"

\* lines 54-59.  A read of pos[i + 1] or pos[i + 2] past the end raises
\* IndexError; the pairs appended so far stay in the list.
RECURSIVE ScanFrom(_, _, _, _)
ScanFrom(pos, pairs, i, acc) ==
    IF i > Len(pos) THEN [raised |-> FALSE, pairs |-> acc]
    ELSE IF TagInitial(pos[i]) = "V" THEN
        IF i + 1 > Len(pos) THEN [raised |-> TRUE, pairs |-> acc]
        ELSE IF TagInitial(pos[i + 1]) = "V" THEN
            IF i + 2 > Len(pos) THEN [raised |-> TRUE, pairs |-> acc]
            ELSE IF pos[i + 2] = "IN"
                 THEN ScanFrom(pos, pairs, i + 1,
                               acc \o <<pairs[i][1], pairs[i][2]>>)
                 ELSE ScanFrom(pos, pairs, i + 1, acc)
        ELSE ScanFrom(pos, pairs, i + 1, acc)
    ELSE ScanFrom(pos, pairs, i + 1, acc)

\* lines 60-68.  A pattern is the sequence of its pieces.
RECURSIVE PrepPairsRegexFrom(_, _, _)
PrepPairsRegexFrom(pairs, c, acc) ==
    IF c > Len(pairs) THEN acc
    ELSE IF c - 1 < Len(pairs) - 2
         THEN PrepPairsRegexFrom(pairs, c + 1,
                                 acc \o <<pairs[c], " ", pairs[c + 1], "|">>)
         ELSE IF c - 1 = Len(pairs) - 2
              THEN PrepPairsRegexFrom(pairs, c + 1,
                                      acc \o <<pairs[c], " ", pairs[c + 1], ")">>)
              ELSE PrepPairsRegexFrom(pairs, c + 1, acc)

PrepPairsRegex(pairs) == PrepPairsRegexFrom(pairs, 1, <<"(?:">>)

\* fr"\s(\w+est[^\.]*{alternation})" (line 69 and raises_doubt line 112).
TemplateHead == <<"\\s", "(", "\\w+", "e", "s", "t", "[^\\.]*">>

SpanTemplate(alternation) == TemplateHead \o alternation \o <<")">>

(***************************************************************************)
(* The part of Python's re the detectors use: compiling the pattern and    *)
(* re.finditer over the text with the span template.                       *)
(***************************************************************************)
\* Nesting depth of the groups after piece i; -1 once a ")" closes nothing.
RECURSIVE GroupDepth(_, _, _)
GroupDepth(pattern, i, depth) ==
    IF i > Len(pattern) THEN depth
    ELSE IF pattern[i] \in {"(", "(?:"} THEN GroupDepth(pattern, i + 1, depth + 1)
    ELSE IF pattern[i] = ")"
         THEN IF depth = 0 THEN -1 ELSE GroupDepth(pattern, i + 1, depth - 1)
         ELSE GroupDepth(pattern, i + 1, depth)

\* re.compile succeeds; otherwise re.error (unterminated subpattern or
\* unbalanced parenthesis).
Compiles(pattern) == GroupDepth(pattern, 1, 0) = 0

\* The pieces of a compiled pattern between "(?:" and the ")" closing it.
AlternationBody(pattern) ==
    LET first == Len(TemplateHead) + 2
        close == CHOOSE j \in first..Len(pattern) :
                     /\ pattern[j] = ")"
                     /\ \A k \in first..(j - 1) : pattern[k] # ")"
    IN Slice(pattern, first, close - 1)

\* The alternatives of an alternation body, split at "|".
RECURSIVE SplitAlternatives(_, _, _)
SplitAlternatives(body, i, acc) ==
    IF i > Len(body) THEN acc
    ELSE IF body[i] = "|" THEN SplitAlternatives(body, i + 1, Append(acc, <<>>))
    ELSE SplitAlternatives(body, i + 1,
             [acc EXCEPT ![Len(acc)] = Append(acc[Len(acc)], body[i])])

Alternatives(pattern) == SplitAlternatives(AlternationBody(pattern), 1, <<<<>>>>)

IsSpace(c) == c = " "                \* \s
IsWordChar(c) == c \notin {" ", "."} \* \w, over letters, blank and period
IsNotPeriod(c) == c # "."            \* [^\.]

\* A piece of an alternative against one character: tokens are pasted
\* into the pattern unescaped, so "." stands for any character.
PieceMatches(piece, c) == piece = "." \/ piece = c

AltMatchesAt(items, alt, p) ==
    /\ p + Len(alt) - 1 <= Len(items)
    /\ \A k \in 1..Len(alt) : PieceMatches(alt[k], items[p + k - 1])

\* Length of the longest run of word / non-period characters from p on.
WordRun(items, p) ==
    CHOOSE n \in 0..Len(items) :
        /\ p + n - 1 <= Len(items)
        /\ \A k \in 0..(n - 1) : IsWordChar(items[p + k])
        /\ (p + n > Len(items) \/ ~IsWordChar(items[p + n]))

NonPeriodRun(items, p) ==
    CHOOSE n \in 0..Len(items) :
        /\ p + n - 1 <= Len(items)
        /\ \A k \in 0..(n - 1) : IsNotPeriod(items[p + k])
        /\ (p + n > Len(items) \/ ~IsNotPeriod(items[p + n]))

\* The ways the template matches with its \s on position s: w characters
\* for \w+, then "est", n characters for [^\.]*, then alternative a.
MatchWays(items, alts, s) ==
    IF s > Len(items) \/ ~IsSpace(items[s]) THEN {}
    ELSE {way \in (1..Len(items)) \X (0..Len(items)) \X (1..Len(alts)) :
            LET w == way[1]
                n == way[2]
                a == way[3]
            IN /\ s + w + 3 <= Len(items)
               /\ w <= WordRun(items, s + 1)
               /\ items[s + w + 1] = "e"
               /\ items[s + w + 2] = "s"
               /\ items[s + w + 3] = "t"
               /\ n <= NonPeriodRun(items, s + w + 4)
               /\ AltMatchesAt(items, alts[a], s + w + 4 + n)}

\* The way backtracking finds first: both repeats greedy, alternatives in
\* order.
FirstWay(ways) ==
    CHOOSE way \in ways :
        \A other \in ways :
            \/ way[1] > other[1]
            \/ way[1] = other[1] /\ way[2] > other[2]
            \/ way[1] = other[1] /\ way[2] = other[2] /\ way[3] <= other[3]

\* Last position of the match starting on s, 0 when there is none.
MatchEnd(items, alts, s) ==
    LET ways == MatchWays(items, alts, s)
    IN IF ways = {} THEN 0
       ELSE LET way == FirstWay(ways)
            IN s + way[1] + 3 + way[2] + Len(alts[way[3]])

\* match.span() of every match re.finditer yields: leftmost first, each
\* search resuming where the previous match ended.
RECURSIVE FindIterFrom(_, _, _, _)
FindIterFrom(items, alts, from, acc) ==
    LET starts == {s \in from..Len(items) : MatchEnd(items, alts, s) # 0}
    IN IF starts = {} THEN acc
       ELSE LET s == CHOOSE x \in starts : \A y \in starts : x <= y
                e == MatchEnd(items, alts, s)
            IN FindIterFrom(items, alts, e + 1, Append(acc, <<s - 1, e>>))

FindIter(pattern, items) == FindIterFrom(items, Alternatives(pattern), 1, <<>>)

\* Fault variant of lines 73-75: the two ends of the span exchanged.
FlagSwapped(span, category) ==
    [start |-> span[2], end |-> span[1], issue |-> category]

\* Flag(match.span()[0], match.span()[1], Issue(category, ...)).
Flag(span, category) == [start |-> span[1], end |-> span[2], issue |-> category]

FlagsOf(spans, category) == [i \in 1..Len(spans) |-> Flag(spans[i], category)]

(***************************************************************************)
(* The documents: what doc.text() and nltk.pos_tag give.                   *)
(***************************************************************************)
RECURSIVE SeqsUpTo(_, _)
SeqsUpTo(S, n) ==
    IF n = 0 THEN {<<>>}
    ELSE LET shorter == SeqsUpTo(S, n - 1)
         IN shorter \cup {Append(q, x) : q \in {r \in shorter : Len(r) = n - 1}, x \in S}

SeqsOfLen(S, n) == {q \in SeqsUpTo(S, n) : Len(q) = n}

\* partsofspeech searches doc.text() with re, so the text is a str and
\* its items are its characters: nothing, or " best" tagged as nouns or
\* ending in a verb-verb-preposition sequence, then up to MaxTail more
\* characters with any tags.
Best == <<" ", "b", "e", "s", "t">>

Heads == {[chars |-> <<>>, tags |-> <<>>],
          [chars |-> Best, tags |-> <<"NN", "NN", "NN", "NN", "NN">>],
          [chars |-> Best, tags |-> <<"NN", "NN", "VBD", "VBD", "IN">>]}

TailChars == {"e", "s", " ", "."}

PosTags == {"VBD", "IN", "NN"}

InitLocals ==
    /\ pc = "called"
    /\ err = "none"
    /\ preposition_pairs = <<>>
    /\ neg_words_in_text = <<>>
    /\ hedged_words_in_text = <<>>
    /\ faint_praise_in_text = <<>>
    /\ irrelevancies_in_text = <<>>
    /\ doubt_raising_words = <<>>
    /\ superlatives_in_text = <<>>
    /\ found_at = <<>>
    /\ regex = NoRegex
    /\ flags = <<>>
    /\ summary = NoSummary
    /\ summary_sets = 0

InitPartofSpeech ==
    /\ detector = "partsofspeech.PartofSpeechDetector"
    /\ \E head \in Heads, n \in 0..MaxTail :
         \E chars \in SeqsOfLen(TailChars, n), tags \in SeqsOfLen(PosTags, n) :
            /\ text = head.chars \o chars
            /\ word_pos = head.tags \o tags
    /\ InitLocals

(***************************************************************************)
(* PartofSpeechDetector.get_report, partsofspeech lines 48-82.             *)
(***************************************************************************)
PartofSpeechGetReport ==
    /\ detector = "partsofspeech.PartofSpeechDetector"
    /\ pc = "called"
    /\ LET scan == ScanFrom(word_pos, Bigrams(text), 1, <<>>)
           pattern == SpanTemplate(PrepPairsRegex(scan.pairs))
       IN /\ preposition_pairs' = scan.pairs
          /\ IF scan.raised
             THEN /\ pc' = "raised"
                  /\ err' = "IndexError"
                  /\ regex' = NoRegex
                  /\ flags' = <<>>
             ELSE /\ regex' = pattern
                  /\ IF Compiles(pattern)
                     THEN /\ pc' = "returned"
                          /\ err' = "none"
                          /\ flags' = FlagsOf(FindIter(pattern, text), "Part of Speech")
                     ELSE /\ pc' = "raised"
                          /\ err' = "re.error"
                          /\ flags' = <<>>
    /\ UNCHANGED <<detector, text, word_pos, neg_words_in_text,
                   hedged_words_in_text, faint_praise_in_text,
                   irrelevancies_in_text, doubt_raising_words,
                   superlatives_in_text, found_at, summary, summary_sets>>

(***************************************************************************)
(* Lexical data of the toolkit.  str.lower over the model words, and       *)
(* wn.synset(name).lemma_names() for the senses the detectors name.  The   *)
(* senses narrower than religion are represented by two: one without a     *)
(* model word, and one that has "benedict" as a lemma, the match that      *)
(* line 100 of raises_doubt is written against.                            *)
(***************************************************************************)
Lower(word) ==
    CASE word = "Not" -> "not"
      [] word = "Most" -> "most"
      [] OTHER -> word

LowercaseText(items) == [i \in 1..Len(items) |-> Lower(items[i])]

LemmaNames(synset) ==
    CASE synset = "not.r.01" -> <<"not", "non", "n't">>
      [] synset = "look.v.02" -> <<"look", "appear", "seem">>
      [] synset = "average.s.01" -> <<"average", "mean">>
      [] synset = "average.s.02" -> <<"average", "ordinary">>
      [] synset = "average.s.03" -> <<"average", "intermediate", "medium">>
      [] synset = "average.s.04" -> <<"average", "fair", "mediocre", "middling">>
      [] synset = "median.s.01" -> <<"median", "average">>
      [] synset = "lack.n.01" -> <<"lack", "deficiency", "want">>
      [] synset = "church.n.03" -> <<"church", "church_service">>
      [] synset = "religion.n.01" -> <<"religion", "faith", "religious_belief">>
      [] synset = "religious.s.01" -> <<"religious">>
      [] synset = "wife.n.01" -> <<"wife", "married_woman">>
      [] synset = "spouse.n.01" ->
             <<"spouse", "partner", "married_person", "mate", "better_half">>
      [] synset = "husband.n.01" -> <<"husband", "hubby", "married_man">>
      [] synset = "cult.n.02" -> <<"cult", "cultus", "religious_cult">>
      [] synset = "benedict.n.01" -> <<"benedict">>
      [] synset = "better.s.03" -> <<"better", "best">>
      [] synset = "estimable.s.02" ->
             <<"estimable", "good", "honorable", "respectable">>
      [] synset = "adept.s.01" ->
             <<"adept", "expert", "good", "practiced", "proficient",
               "skillful", "skilful">>
      [] synset = "incredible.a.01" -> <<"incredible", "unbelievable">>
      [] synset = "greatest.s.01" -> <<"greatest", "sterling", "superlative">>
      [] synset = "great.s.02" -> <<"great", "outstanding">>
      [] synset = "excellent.s.01" ->
             <<"excellent", "first-class", "fantabulous", "splendid">>
      [] synset = "phenomenal.s.02" -> <<"phenomenal">>
      [] synset = "fantastic.s.02" ->
             <<"fantastic", "grand", "marvelous", "terrific", "tremendous",
               "wonderful">>
      [] synset = "ace.s.01" -> <<"ace", "crack", "first-rate", "super", "tops">>
      [] synset = "ever.r.01" -> <<"ever", "of_all_time">>
      [] synset = "most.r.01" -> <<"most", "to_the_highest_degree">>

\* wn.synset('religion.n.01').hyponyms(): the senses narrower than religion.
ReligionHyponyms == <<"cult.n.02", "benedict.n.01">>

\* x in list
In(x, list) == \E k \in 1..Len(list) : list[k] = x

\* [x for x in words if x in lemmas], the order of the text kept.
RECURSIVE WordsIn(_, _, _, _)
WordsIn(words, lemmas, i, acc) ==
    IF i > Len(words) THEN acc
    ELSE IF In(words[i], lemmas) THEN WordsIn(words, lemmas, i + 1, Append(acc, words[i]))
    ELSE WordsIn(words, lemmas, i + 1, acc)

(***************************************************************************)
(* raises_doubt: the four stages, lines 51-103.                            *)
(***************************************************************************)
\* lines 52-56
NegWordsInText(words) == WordsIn(words, LemmaNames("not.r.01"), 1, <<>>)

\* lines 62-67: the hedge lemmas, then each with a trailing "s"
HedgedWords ==
    LET lemmas == LemmaNames("look.v.02")
    IN lemmas \o [k \in 1..Len(lemmas) |-> lemmas[k] \o "s"]

\* lines 68-70
HedgedWordsInText(words) == WordsIn(words, HedgedWords, 1, <<>>)

\* for x in words: for y in synsets: if x in lemma_names(y): if x != denied:
\* append x.  One entry for every sense the word is a lemma of.
RECURSIVE SenseScan(_, _, _, _, _, _)
SenseScan(words, synsets, denied, i, j, acc) ==
    IF i > Len(words) THEN acc
    ELSE IF j > Len(synsets) THEN SenseScan(words, synsets, denied, i + 1, 1, acc)
    ELSE IF In(words[i], LemmaNames(synsets[j])) /\ words[i] # denied
         THEN SenseScan(words, synsets, denied, i, j + 1, Append(acc, words[i]))
         ELSE SenseScan(words, synsets, denied, i, j + 1, acc)

\* lines 78-79
faint_praise_synsets ==
    <<"average.s.01", "average.s.02", "average.s.03", "average.s.04",
      "median.s.01", "lack.n.01">>

\* Fault variant of lines 80-84: no word is left out.
FaintPraiseInTextNoDenylist(words) ==
    SenseScan(words, faint_praise_synsets, "", 1, 1, <<>>)

\* lines 80-84
FaintPraiseInText(words) == SenseScan(words, faint_praise_synsets, "want", 1, 1, <<>>)

\* str(synset), "Synset('name')", by pieces, and its slice [8:-2]
SynsetStr(name) == <<"S", "y", "n", "s", "e", "t", "(", "'", name, "'", ")">>

ToAdd(name) == Slice(SynsetStr(name), 9, Len(SynsetStr(name)) - 2)[1]

\* lines 91-96: the seed senses, then every hyponym of religion
irrelevancies_synsets ==
    <<"church.n.03", "religion.n.01", "religious.s.01", "wife.n.01",
      "spouse.n.01", "husband.n.01">>
    \o [k \in 1..Len(ReligionHyponyms) |-> ToAdd(ReligionHyponyms[k])]

\* lines 97-101
IrrelevanciesInText(words) ==
    SenseScan(words, irrelevancies_synsets, "benedict", 1, 1, <<>>)

\* lines 105-111: the alternation that reaches the template
\* (_doubt_raisers_regex) and the closed one, left in _neg_words_regex.
RECURSIVE DoubtRaisersRegexFrom(_, _, _)
DoubtRaisersRegexFrom(words, c, acc) ==
    IF c > Len(words) THEN acc
    ELSE IF c - 1 < Len(words) - 1
         THEN DoubtRaisersRegexFrom(words, c + 1,
                  [acc EXCEPT !.doubt = acc.doubt \o <<words[c], "|">>])
         ELSE IF c - 1 = Len(words) - 1
              THEN DoubtRaisersRegexFrom(words, c + 1,
                       [acc EXCEPT !.neg = acc.doubt \o <<words[c], ")">>])
              ELSE DoubtRaisersRegexFrom(words, c + 1, acc)

DoubtRaisersRegex(words) ==
    DoubtRaisersRegexFrom(words, 1, [doubt |-> <<"(?:">>, neg |-> <<>>]).doubt

\* raises_doubt and superlatives only iterate doc.text(): its items are
\* modelled as words.
DoubtWords == {"she", "Not", "not", "seems", "want", "benedict", "average", "wife"}

InitRaisesDoubt ==
    /\ detector = "raises_doubt.RaisesDoubtDetector"
    /\ text \in SeqsUpTo(DoubtWords, MaxWords)
    /\ word_pos = <<>>
    /\ InitLocals

(***************************************************************************)
(* raises_doubt.RaisesDoubtDetector.get_report, lines 45-126.              *)
(***************************************************************************)
RaisesDoubtGetReport ==
    /\ detector = "raises_doubt.RaisesDoubtDetector"
    /\ pc = "called"
    /\ LET words == LowercaseText(text)
           neg == NegWordsInText(words)
           hedged == HedgedWordsInText(words)
           faint == FaintPraiseInText(words)
           irrelevant == IrrelevanciesInText(words)
           merged == neg \o hedged \o faint \o irrelevant
           pattern == SpanTemplate(DoubtRaisersRegex(merged))
       IN /\ neg_words_in_text' = neg
          /\ hedged_words_in_text' = hedged
          /\ faint_praise_in_text' = faint
          /\ irrelevancies_in_text' = irrelevant
          /\ doubt_raising_words' = merged
          /\ regex' = pattern
          /\ IF Compiles(pattern)
             THEN /\ pc' = "returned"
                  /\ err' = "none"
                  /\ flags' = FlagsOf(FindIter(pattern, text), "Raises Doubt")
             ELSE /\ pc' = "raised"
                  /\ err' = "re.error"
                  /\ flags' = <<>>
    /\ UNCHANGED <<detector, text, word_pos, preposition_pairs,
                   superlatives_in_text, found_at, summary, summary_sets>>

(***************************************************************************)
(* superlatives: the scan and the summary, lines 49-83.                    *)
(***************************************************************************)
\* lines 52-54
superlatives_synsets ==
    <<"better.s.03", "estimable.s.02", "adept.s.01", "incredible.a.01",
      "greatest.s.01", "great.s.02", "excellent.s.01", "phenomenal.s.02",
      "fantastic.s.02", "ace.s.01", "ever.r.01", "most.r.01">>

\* seq[k] of Python for k >= -Len(seq): a negative k counts from the end.
PyIndex(seq, k) == IF k < 0 THEN seq[Len(seq) + k + 1] ELSE seq[k + 1]

\* Fault variant of line 58: the tag of the word itself is compared.
NotAfterPossessiveOwnTag(pos, i) == PyIndex(pos, i - 1) # "PRP$"

\* line 58, for the word at position i (Python index i - 1)
NotAfterPossessive(pos, i) == PyIndex(pos, (i - 1) - 1) # "PRP$"

\* lines 55-59: the positions appended, one for every sense matched
RECURSIVE SuperlativeScan(_, _, _, _, _)
SuperlativeScan(words, pos, i, j, acc) ==
    IF i > Len(words) THEN acc
    ELSE IF j > Len(superlatives_synsets) THEN SuperlativeScan(words, pos, i + 1, 1, acc)
    ELSE IF /\ In(words[i], LemmaNames(superlatives_synsets[j]))
            /\ NotAfterPossessive(pos, i)
         THEN SuperlativeScan(words, pos, i, j + 1, Append(acc, i))
         ELSE SuperlativeScan(words, pos, i, j + 1, acc)

\* lines 61-65
NoSuperlativesSummary ==
    "This document contains few or no superlatives "
    \o "(best, most, greatest, etc) that could increase the strength "
    \o "of the letter. Consider adding superlatives as appropriate."

\* lines 74-78
RECURSIVE SerialJoinFrom(_, _, _)
SerialJoinFrom(found, c, acc) ==
    IF c > Len(found) THEN acc
    ELSE IF c - 1 < Len(found) - 1
         THEN SerialJoinFrom(found, c + 1, acc \o found[c] \o ", ")
         ELSE SerialJoinFrom(found, c + 1, acc \o "and " \o found[c])

\* Fault variant of lines 67-78: no branch for two entries.
SuperlativesInTextStringNoPair(found) ==
    IF Len(found) = 1 THEN found[1]
    ELSE SerialJoinFrom(found, 1, "")

\* lines 67-78
SuperlativesInTextString(found) ==
    IF Len(found) = 1 THEN found[1]
    ELSE IF Len(found) = 2 THEN found[1] \o " and " \o found[2]
    ELSE SerialJoinFrom(found, 1, "")

\* lines 60-83
SummaryOf(found) ==
    IF Len(found) = 0 THEN NoSuperlativesSummary
    ELSE "This document contains superlatives that likely increase "
         \o "the strength of the letter, including "
         \o SuperlativesInTextString(found) \o "."

SuperlativeWords == {"best", "Most", "good", "her", "she"}

SuperlativeTags == {"PRP$", "JJS", "NN"}

InitSuperlatives ==
    /\ detector = "superlatives.RaisesDoubtDetector"
    /\ \E n \in 0..MaxWords :
         /\ text \in SeqsOfLen(SuperlativeWords, n)
         /\ word_pos \in SeqsOfLen(SuperlativeTags, n)
    /\ InitLocals

(***************************************************************************)
(* superlatives.RaisesDoubtDetector.get_report, lines 46-84.               *)
(***************************************************************************)
SuperlativesGetReport ==
    /\ detector = "superlatives.RaisesDoubtDetector"
    /\ pc = "called"
    /\ LET words == LowercaseText(text)
           at == SuperlativeScan(words, word_pos, 1, 1, <<>>)
           found == [k \in 1..Len(at) |-> words[at[k]]]
       IN /\ found_at' = at
          /\ superlatives_in_text' = found
          /\ summary' = SummaryOf(found)
          /\ summary_sets' = summary_sets + 1
    /\ pc' = "returned"
    /\ err' = "none"
    /\ UNCHANGED <<detector, text, word_pos, preposition_pairs,
                   neg_words_in_text, hedged_words_in_text,
                   faint_praise_in_text, irrelevancies_in_text,
                   doubt_raising_words, regex, flags>>

(***************************************************************************)
(* One get_report call on one document.                                    *)
(***************************************************************************)
Init == InitPartofSpeech \/ InitRaisesDoubt \/ InitSuperlatives

Next ==
    \/ PartofSpeechGetReport
    \/ RaisesDoubtGetReport
    \/ SuperlativesGetReport

Spec == Init /\ [][Next]_vars

(***************************************************************************)
(* Properties.                                                             *)
(***************************************************************************)
IsPartofSpeech == detector = "partsofspeech.PartofSpeechDetector"
IsRaisesDoubt == detector = "raises_doubt.RaisesDoubtDetector"
IsSuperlatives == detector = "superlatives.RaisesDoubtDetector"

Finished == pc # "called"

\* Number of characters of the text the items make up.
RECURSIVE RawLengthFrom(_, _)
RawLengthFrom(items, i) ==
    IF i > Len(items) THEN 0 ELSE Len(items[i]) + RawLengthFrom(items, i + 1)

RawLength(items) == RawLengthFrom(items, 1)

\* The positions i with a verb at i and i + 1 and the tag IN at i + 2.
Sites(pos) ==
    {i \in 1..(Len(pos) - 2) :
        /\ TagInitial(pos[i]) = "V"
        /\ TagInitial(pos[i + 1]) = "V"
        /\ pos[i + 2] = "IN"}

\* The k-th smallest element of a set of positions.
KthSite(S, k) == CHOOSE i \in S : Cardinality({j \in S : j <= i}) = k

\* A lower-cased word that one of the four doubt stages picks up.
InDoubtCategory(word) ==
    \/ In(word, LemmaNames("not.r.01"))
    \/ In(word, HedgedWords)
    \/ \E j \in 1..Len(faint_praise_synsets) :
           In(word, LemmaNames(faint_praise_synsets[j]))
    \/ \E j \in 1..Len(irrelevancies_synsets) :
           In(word, LemmaNames(irrelevancies_synsets[j]))

\* A lower-cased word that is a lemma of one of the superlative senses.
InSuperlativeSense(word) ==
    \E j \in 1..Len(superlatives_synsets) :
        In(word, LemmaNames(superlatives_synsets[j]))

\* C1: a text without a verb-verb-preposition sequence makes the distancing
\* detector return, without raising, a Report with zero flags.
C1_NoSiteReturnsNoFlags ==
    (IsPartofSpeech /\ Finished /\ Sites(word_pos) = {})
        => (pc = "returned" /\ flags = <<>>)

\* C2: a text without a word of the four doubt categories has an empty
\* merged trigger list and makes the doubt detector return, without
\* raising, a Report with zero flags.
C2_NoDoubtWordReturnsNoFlags ==
    (IsRaisesDoubt /\ Finished
        /\ \A i \in 1..Len(text) : ~InDoubtCategory(Lower(text[i])))
        => (doubt_raising_words = <<>> /\ pc = "returned" /\ flags = <<>>)

\* C3: the verb-verb-preposition scan never reads a tag past the end of
\* the sequence, whatever the tags of the last two tokens are.
C3_ScanStaysInBounds ==
    IsPartofSpeech => err # "IndexError"

\* C4: a first token that is a lemma of a superlative sense is appended to
\* the found list, whatever the tags of the other tokens are.
C4_FirstTokenFound ==
    (IsSuperlatives /\ pc = "returned" /\ Len(text) >= 1
        /\ InSuperlativeSense(Lower(text[1])))
        => In(1, found_at)

\* C5: an occurrence whose preceding tag is PRP$ contributes no entry to
\* the found list; when every occurrence of a superlative word is preceded
\* by PRP$ the found list is empty and the summary is the zero-count
\* prompt.
C5_PossessiveExcluded ==
    (IsSuperlatives /\ pc = "returned") =>
        /\ \A k \in 1..Len(found_at) :
               found_at[k] >= 2 => word_pos[found_at[k] - 1] # "PRP$"
        /\ (\A i \in 1..Len(text) :
               InSuperlativeSense(Lower(text[i]))
                   => (i >= 2 /\ word_pos[i - 1] = "PRP$"))
           => (superlatives_in_text = <<>> /\ summary = NoSuperlativesSummary)

\* "her best": a superlative word after a possessive, nothing found.
C5_Witness ==
    /\ IsSuperlatives
    /\ pc = "returned"
    /\ \E i \in 2..Len(text) :
           InSuperlativeSense(Lower(text[i])) /\ word_pos[i - 1] = "PRP$"
    /\ superlatives_in_text = <<>>
    /\ summary = NoSuperlativesSummary

\* Every entry followed by ", ".
RECURSIVE CommaEach(_)
CommaEach(entries) ==
    IF entries = <<>> THEN ""
    ELSE Head(entries) \o ", " \o CommaEach(Tail(entries))

\* The summary the specification gives for a found list.
ExpectedSummary(found) ==
    LET n == Len(found)
        list == CASE n = 1 -> found[1]
                  [] n = 2 -> found[1] \o " and " \o found[2]
                  [] n >= 3 -> CommaEach(SubSeq(found, 1, n - 1))
                               \o "and " \o found[n]
    IN IF n = 0
       THEN "This document contains few or no superlatives (best, most, "
            \o "greatest, etc) that could increase the strength of the "
            \o "letter. Consider adding superlatives as appropriate."
       ELSE "This document contains superlatives that likely increase the "
            \o "strength of the letter, including " \o list \o "."

\* C6: the summary is set exactly once and is the one the found list
\* determines: the prompt for no entry, "w", "w1 and w2", or the serial
\* comma list, after "including " and before "."; the entries are in the
\* order of discovery.
C6_SummaryComposition ==
    /\ (IsSuperlatives /\ pc = "called") => summary_sets = 0
    /\ (IsSuperlatives /\ pc = "returned") =>
          /\ summary_sets = 1
          /\ summary = ExpectedSummary(superlatives_in_text)
          /\ Len(superlatives_in_text) = Len(found_at)
          /\ \A k \in 1..Len(found_at) :
                /\ superlatives_in_text[k] = Lower(text[found_at[k]])
                /\ k > 1 => found_at[k - 1] <= found_at[k]

\* A found list of three or more entries, not all the same word.
C6_Witness ==
    /\ IsSuperlatives
    /\ pc = "returned"
    /\ Len(superlatives_in_text) >= 3
    /\ superlatives_in_text[1] # superlatives_in_text[Len(superlatives_in_text)]

\* C7: the faint-praise stage never appends "want" and the irrelevancies
\* stage never appends "benedict"; a text whose only words of a doubt
\* category are these has an empty merged trigger list and no flag.
C7_HardCodedExclusions ==
    (IsRaisesDoubt /\ Finished) =>
        /\ ~In("want", faint_praise_in_text)
        /\ ~In("benedict", irrelevancies_in_text)
        /\ (\A i \in 1..Len(text) :
               InDoubtCategory(Lower(text[i]))
                   => Lower(text[i]) \in {"want", "benedict"})
           => (doubt_raising_words = <<>> /\ flags = <<>>)

\* A text with both "want" and "benedict" and no other doubt word.
C7_Witness ==
    /\ IsRaisesDoubt
    /\ Finished
    /\ In("want", LowercaseText(text))
    /\ In("benedict", LowercaseText(text))
    /\ doubt_raising_words = <<>>
    /\ flags = <<>>

\* C8: every Flag of the distancing and of the doubt detector satisfies
\* 0 <= start < end <= length(text).
C8_FlagSpanValid ==
    (IsPartofSpeech \/ IsRaisesDoubt) =>
        \A k \in 1..Len(flags) :
            /\ 0 <= flags[k].start
            /\ flags[k].start < flags[k].end
            /\ flags[k].end <= RawLength(text)

\* A Report returned with a flag.
C8_Witness ==
    /\ IsPartofSpeech
    /\ pc = "returned"
    /\ flags # <<>>

\* C9: with a non-empty merged trigger list the pattern handed to the
\* search is the template with a closed alternation of every entry of the
\* list, the last one included, and get_report returns.
C9_ClosedPatternOfEveryTrigger ==
    (IsRaisesDoubt /\ Finished /\ doubt_raising_words # <<>>) =>
        /\ Compiles(regex)
        /\ \A k \in 1..Len(doubt_raising_words) : In(doubt_raising_words[k], regex)
        /\ pc = "returned"

\* C10: with k >= 1 sites the trigger list has 2k entries, the two tokens
\* of each site in order, and the alternation has exactly k alternatives,
\* 'token[i] token[i+1]' for each site i.
C10_OneAlternativePerSite ==
    (IsPartofSpeech /\ Finished /\ err # "IndexError" /\ Sites(word_pos) # {}) =>
        LET sites == Sites(word_pos)
            k == Cardinality(sites)
        IN /\ Len(preposition_pairs) = 2 * k
           /\ \A j \in 1..k :
                 /\ preposition_pairs[2 * j - 1] = text[KthSite(sites, j)]
                 /\ preposition_pairs[2 * j] = text[KthSite(sites, j) + 1]
           /\ Alternatives(regex) =
                 [j \in 1..k |-> <<text[KthSite(sites, j)], " ",
                                   text[KthSite(sites, j) + 1]>>]

====
